---- MODULE Spec2Model ----
(***************************************************************************)
(* A model of the FutureFit backend: the /process request handler of       *)
(* app.py and the scraper, apply-link picker and analyzer of              *)
(* backend_logic.py.                                                       *)
(*                                                                         *)
(* Python values are tagged records: None, a string (a sequence of         *)
(* one-character strings, so that substring tests, lowercasing, stripping  *)
(* and formatting are computed character by character), a list, or the    *)
(* NaN that pandas reads from an empty CSV field.  A dict is a record that  *)
(* holds Absent for a key it lacks.                                        *)
(***************************************************************************)
EXTENDS Integers, Sequences, FiniteSets, TLC

VARIABLES
  \* _pick_best_apply_link called on its own
  ljob, lpc, lscores, lbest, lresult,
  \* the process: its API keys, the clients that send a request, which stub
  \* of the search API answers
  SERP_API_KEY, GEMINI_API_KEY, clients, searchStub,
  \* the two files on disk
  uploaded_resume, scraped_jobs,
  \* each request: its position and the locals of its handler
  pc, request, all_jobs, processed, scraper_success, resume_text, jobs_df,
  idx, matched_jobs, response,
  \* what each request did to the outside: the search requests issued (with
  \* the kind of answer each got), jobs files written, resume and jobs files
  \* read, generation calls made
  searchCalls, csvWrites, resumeReads, csvReads, genCalls

linkVars == <<ljob, lpc, lscores, lbest, lresult>>
envVars == <<SERP_API_KEY, GEMINI_API_KEY, clients, searchStub>>
fileVars == <<uploaded_resume, scraped_jobs>>
localVars == <<request, all_jobs, processed, scraper_success, resume_text,
               jobs_df, idx, matched_jobs, response>>
logVars == <<searchCalls, csvWrites, resumeReads, csvReads, genCalls>>

-----------------------------------------------------------------------------
(* Python values *)

None == [t |-> "None"]
Absent == [t |-> "absent"]
NaN == [t |-> "nan"]
KeyError == [t |-> "raise"]
S(chars) == [t |-> "str", s |-> chars]
L(items) == [t |-> "list", l |-> items]

\* bool(v) for the values the handlers test
Truthy(v) ==
  CASE v.t = "None" -> FALSE
    [] v.t = "str" -> v.s # <<>>
    [] v.t = "list" -> v.l # <<>>
    [] v.t = "nan" -> TRUE

\* d.get(k, default), d.get(k) and d[k]
GetOr(d, k, default) == IF d[k].t = "absent" THEN default ELSE d[k]
Get(d, k) == GetOr(d, k, None)
Index(d, k) == IF d[k].t = "absent" THEN KeyError ELSE d[k]

\* (v or "")
OrEmpty(v) == IF Truthy(v) THEN v ELSE S(<<>>)

UpperChars == <<"A", "B", "C", "D", "E", "F", "G", "H", "I", "J", "K", "L", "M", "N", "O", "P", "Q", "R", "S", "T", "U", "V", "W", "X", "Y", "Z">>
LowerChars == <<"a", "b", "c", "d", "e", "f", "g", "h", "i", "j", "k", "l", "m", "n", "o", "p", "q", "r", "s", "t", "u", "v", "w", "x", "y", "z">>

LowerMap ==
  [c \in {UpperChars[i] : i \in DOMAIN UpperChars} |->
     LowerChars[CHOOSE i \in DOMAIN UpperChars : UpperChars[i] = c]]

LowerChar(c) == IF c \in DOMAIN LowerMap THEN LowerMap[c] ELSE c

\* str.lower()
Lower(chars) == [i \in DOMAIN chars |-> LowerChar(chars[i])]

\* (needle in hay) for two strings
IsSubstr(needle, hay) ==
  \E i \in 0..(Len(hay) - Len(needle)) :
    \A k \in DOMAIN needle : hay[i + k] = needle[k]

-----------------------------------------------------------------------------
(* _pick_best_apply_link *)

Keywords ==
  << <<"c", "a", "r", "e", "e", "r", "s">>,
     <<"j", "o", "b", "s", ".">>,
     <<"w", "o", "r", "k", "d", "a", "y">>,
     <<"g", "r", "e", "e", "n", "h", "o", "u", "s", "e">>,
     <<"l", "e", "v", "e", "r">>,
     <<"s", "m", "a", "r", "t", "r", "e", "c", "r", "u", "i", "t", "e", "r", "s">>,
     <<"s", "u", "c", "c", "e", "s", "s", "f", "a", "c", "t", "o", "r", "s">>,
     <<"m", "y", "w", "o", "r", "k", "d", "a", "y", "j", "o", "b", "s">>,
     <<"o", "r", "a", "c", "l", "e", "c", "l", "o", "u", "d">>,
     <<"a", "d", "p">>,
     <<"a", "s", "h", "b", "y">>,
     <<"i", "c", "i", "m", "s">>,
     <<"b", "a", "m", "b", "o", "o", "h", "r">> >>

BadSites ==
  << <<"i", "n", "d", "e", "e", "d", ".">>,
     <<"l", "i", "n", "k", "e", "d", "i", "n", ".">>,
     <<"z", "i", "p", "r", "e", "c", "r", "u", "i", "t", "e", "r", ".">>,
     <<"t", "a", "l", "e", "n", "t", ".", "c", "o", "m">>,
     <<"g", "l", "a", "s", "s", "d", "o", "o", "r", ".">>,
     <<"b", "e", "b", "e", "e", ".">>,
     <<"n", "a", "u", "k", "r", "i", ".">>,
     <<"m", "o", "n", "s", "t", "e", "r", ".">> >>

\* the for loops of score: s after the first n words of the list were tried
RECURSIVE Accumulate(_, _, _, _, _)
Accumulate(s, words, n, link, step) ==
  IF n = 0 THEN s
  ELSE LET before == Accumulate(s, words, n - 1, link, step)
       IN  IF IsSubstr(words[n], link) THEN before + step ELSE before

\* score(opt) with the link compared as it was received, not lowercased
scoreCaseSensitive(opt, company) ==
  LET link == OrEmpty(Get(opt, "link")).s
      s0 == IF company # <<>> /\ IsSubstr(company, link) THEN 5 ELSE 0
      s1 == Accumulate(s0, Keywords, Len(Keywords), link, 3)
  IN  Accumulate(s1, BadSites, Len(BadSites), link, -1)

\* score(opt); company is the lowercased employer name of line 21
score(opt, company) ==
  LET link == Lower(OrEmpty(Get(opt, "link")).s)
      s0 == IF company # <<>> /\ IsSubstr(company, link) THEN 5 ELSE 0
      s1 == Accumulate(s0, Keywords, Len(Keywords), link, 3)
  IN  Accumulate(s1, BadSites, Len(BadSites), link, -1)

\* sorted(apply_options, key=score, reverse=True), as the order of the
\* indices: a stable sort, so options of equal score keep their input order
RECURSIVE SortedLastFirst(_, _)
SortedLastFirst(keys, n) ==
  IF n = 0 THEN <<>>
  ELSE LET done == SortedLastFirst(keys, n - 1)
           p == Cardinality({q \in DOMAIN done : keys[done[q]] > keys[n]})
       IN  SubSeq(done, 1, p) \o <<n>> \o SubSeq(done, p + 1, Len(done))

RECURSIVE SortedReverse(_, _)
SortedReverse(keys, n) ==
  IF n = 0 THEN <<>>
  ELSE LET done == SortedReverse(keys, n - 1)
           p == Cardinality({q \in DOMAIN done : keys[done[q]] >= keys[n]})
       IN  SubSeq(done, 1, p) \o <<n>> \o SubSeq(done, p + 1, Len(done))

\* line 20: apply_options
ApplyOptions(job) ==
  (IF Truthy(GetOr(job, "apply_options", L(<<>>)))
   THEN GetOr(job, "apply_options", L(<<>>)) ELSE L(<<>>)).l

\* the key of every option, in input order
ScoreKeys(job) ==
  LET company == Lower(OrEmpty(Get(job, "company_name")).s)
  IN  [i \in DOMAIN ApplyOptions(job) |-> score(ApplyOptions(job)[i], company)]

\* lines 23-40: <<best>>, or <<>> when there are no apply options
SelectBest(job) ==
  LET keys == ScoreKeys(job)
  IN  IF ApplyOptions(job) # <<>>
      THEN <<ApplyOptions(job)[SortedReverse(keys, Len(keys))[1]]>>
      ELSE <<>>

\* lines 41-46, with job["share_link"] read without the guard of line 44
ReturnLinkUnguarded(job, best) ==
  IF best # <<>> /\ Truthy(Get(best[1], "link"))
  THEN Index(best[1], "link")
  ELSE IF Index(job, "share_link").t = "raise" THEN KeyError
  ELSE IF Truthy(Index(job, "share_link")) THEN Index(job, "share_link")
  ELSE S(<<"#">>)

\* lines 41-46
ReturnLink(job, best) ==
  IF best # <<>> /\ Truthy(Get(best[1], "link"))
  THEN Index(best[1], "link")
  ELSE IF Truthy(Get(job, "share_link")) THEN Index(job, "share_link")
  ELSE S(<<"#">>)

_pick_best_apply_link(job) == ReturnLink(job, SelectBest(job))

-----------------------------------------------------------------------------
(* run_scraper_logic: normalisation and de-duplication *)

c_None == <<"N", "o", "n", "e">>
c_NA == <<"N", "/", "A">>
c_GoogleJobs == <<"G", "o", "o", "g", "l", "e", " ", "J", "o", "b", "s">>

\* what an f-string writes for a value
Format(v) == IF v.t = "None" THEN c_None ELSE v.s

\* line 86
JobId(job) == OrEmpty(Get(job, "job_id"))

\* line 87: the key is one string
DedupKey(job) ==
  IF Truthy(JobId(job)) THEN JobId(job).s
  ELSE Format(Get(job, "title")) \o <<"|">> \o Format(Get(job, "company_name"))
       \o <<"|">> \o Format(Get(job, "location"))

\* lines 92-101
Normalize(job) ==
  [source |-> GetOr(job, "via", S(c_GoogleJobs)),
   title |-> GetOr(job, "title", S(c_NA)),
   company |-> GetOr(job, "company_name", S(c_NA)),
   job_id |-> JobId(job),
   location |-> GetOr(job, "location", S(c_NA)),
   description |-> GetOr(job, "description", S(c_NA)),
   share_link |-> GetOr(job, "share_link", S(<<>>)),
   apply_link |-> _pick_best_apply_link(job)]

\* lines 83-101 with the test of line 88 left out
RECURSIVE DedupLoopKeepAll(_, _)
DedupLoopKeepAll(jobs, n) ==
  IF n = 0 THEN [seen |-> {}, processed |-> <<>>]
  ELSE LET before == DedupLoopKeepAll(jobs, n - 1)
       IN  [seen |-> before.seen \cup {DedupKey(jobs[n])},
            processed |-> Append(before.processed, Normalize(jobs[n]))]

\* lines 83-101: seen and processed after the first n jobs
RECURSIVE DedupLoop(_, _)
DedupLoop(jobs, n) ==
  IF n = 0 THEN [seen |-> {}, processed |-> <<>>]
  ELSE LET before == DedupLoop(jobs, n - 1)
           key == DedupKey(jobs[n])
       IN  IF key \in before.seen THEN before
           ELSE [seen |-> before.seen \cup {key},
                 processed |-> Append(before.processed, Normalize(jobs[n]))]

Dedup(jobs) == DedupLoop(jobs, Len(jobs)).processed

-----------------------------------------------------------------------------
(* The files *)

Missing == [t |-> "missing"]
Truncated == [t |-> "empty"]
Corrupt == [t |-> "corrupt"]
Pdf(pages) == [t |-> "pdf", pages |-> pages]
Csv(rows) == [t |-> "csv", rows |-> rows]

Columns ==
  {"source", "title", "company", "job_id", "location", "description",
   "share_link", "apply_link"}

\* DataFrame(processed).to_csv: a missing value is written as an empty field
WriteField(v) == IF v.t = "str" THEN v.s ELSE <<>>
ToCsv(records) ==
  Csv([i \in DOMAIN records |-> [c \in Columns |-> WriteField(records[i][c])]])

\* pd.read_csv: an empty field, and the text N/A, are read as NaN
ReadField(text) == IF text = <<>> \/ text = c_NA THEN NaN ELSE S(text)
ReadCsv(file) ==
  [i \in DOMAIN file.rows |-> [c \in Columns |-> ReadField(file.rows[i][c])]]

Whitespace == {" ", "\n", "\t"}

\* str.strip()
RECURSIVE LStrip(_)
LStrip(chars) ==
  IF chars # <<>> /\ Head(chars) \in Whitespace THEN LStrip(Tail(chars)) ELSE chars
RECURSIVE RStrip(_)
RStrip(chars) ==
  IF chars # <<>> /\ chars[Len(chars)] \in Whitespace
  THEN RStrip(SubSeq(chars, 1, Len(chars) - 1)) ELSE chars
Strip(chars) == RStrip(LStrip(chars))

\* "\n".join(text_parts), each part being (page.extract_text() or "")
RECURSIVE JoinPages(_, _)
JoinPages(pages, n) ==
  IF n = 0 THEN <<>>
  ELSE IF n = 1 THEN OrEmpty(pages[1]).s
  ELSE JoinPages(pages, n - 1) \o <<"\n">> \o OrEmpty(pages[n]).s

\* extract_text_from_pdf on what the path holds
extract_text_from_pdf(file) ==
  IF file.t = "pdf" THEN S(Strip(JoinPages(file.pages, Len(file.pages)))) ELSE None

-----------------------------------------------------------------------------
(* run_analyzer_logic: one job of the loop *)

HeadRows == 5

c_SearchUrl == <<"h", "t", "t", "p", "s", ":", "/", "/", "w", "w", "w", ".", "g", "o", "o", "g", "l", "e", ".", "c", "o", "m", "/", "s", "e", "a", "r", "c", "h", "?", "q", "=", "j", "o", "b", "s", "&", "i", "b", "p", "=", "h", "t", "l", ";", "j", "o", "b", "s", "#", "h", "t", "i", "v", "r", "t", "=", "j", "o", "b", "s", "&", "h", "t", "i", "d", "o", "c", "i", "d", "=">>

\* jobs_df.head(5)
Head5(df) == SubSeq(df, 1, IF Len(df) < HeadRows THEN Len(df) ELSE HeadRows)

\* lines 167-175
MatchLink(job) ==
  LET apply_link == IF Truthy(job.apply_link) THEN job.apply_link ELSE S(<<>>)
  IN  IF ~Truthy(apply_link) \/ apply_link = S(<<"#">>)
      THEN IF job.share_link.t = "str" /\ Truthy(job.share_link) THEN job.share_link
           ELSE IF job.job_id.t = "str" /\ Truthy(job.job_id)
                THEN S(c_SearchUrl \o job.job_id.s)
           ELSE S(<<"#">>)
      ELSE apply_link

\* lines 165-183: text is what the generation API answered
MatchRecord(job, text) ==
  [company |-> job.company,
   title |-> job.title,
   location |-> job.location,
   link |-> MatchLink(job),
   cover_letter |-> S(Strip(OrEmpty(text).s))]

-----------------------------------------------------------------------------
(* The inputs of _pick_best_apply_link *)

MaxOptions == 2

c_Acme == <<"A", "c", "m", "e">>
l_careers == <<"a", "c", "m", "e", ".", "i", "o", "/", "c", "a", "r", "e", "e", "r", "s">>
l_indeed == <<"i", "n", "d", "e", "e", "d", ".", "c", "o", "m", "/", "j">>
l_plain == <<"x", ".", "i", "o", "/", "j">>
l_named == <<"A", "c", "m", "e", "x", ".", "i", "o", "/", "j">>
l_upper == <<"J", "o", "b", "s", ".", "L", "e", "v", "e", "r", ".", "c", "o">>
l_split == <<"m", "y", "w", "o", "r", "k", "A", "c", "m", "e", "d", "a", "y", "j", "o", "b", "s">>
l_joined == <<"m", "y", "w", "o", "r", "k", "d", "a", "y", "j", "o", "b", "s">>
l_share == <<"g", ".", "c", "o", "/", "s">>

LinkPool == {l_careers, l_indeed, l_plain, l_named, l_upper, l_split, l_joined}

OptionPool ==
  {[link |-> v] : v \in {Absent, None, S(<<>>)} \cup {S(l) : l \in LinkPool}}

OptionLists == UNION {[1..n -> OptionPool] : n \in 1..MaxOptions}

LinkJobs ==
  [company_name : {Absent, None, S(<<>>), S(c_Acme)},
   share_link : {Absent, None, S(<<>>), S(l_share)},
   apply_options : {Absent, None, L(<<>>)} \cup {L(o) : o \in OptionLists}]

-----------------------------------------------------------------------------
(* The inputs of the pipeline *)

Requests == {1, 2}

MaxResults == 3
MaxRows == 6

Digits == <<"0", "1", "2", "3", "4", "5", "6", "7", "8", "9">>
Digit(i) == Digits[i + 1]

SearchJob(id, title, company, location, description, options) ==
  [job_id |-> id, title |-> title, company_name |-> company,
   location |-> location, via |-> Absent, description |-> description,
   share_link |-> S(l_share), apply_options |-> options]

\* two postings with one job_id, two that differ in title and company but
\* format to one string, a job_id that reads like such a string, a posting
\* with no fields at all
JobPool ==
  {SearchJob(S(<<"x">>), S(<<"d", "e", "v">>), S(c_Acme), S(<<"l">>), Absent,
             L(<<[link |-> S(l_indeed)], [link |-> S(l_careers)]>>)),
   SearchJob(S(<<"x">>), S(<<"q", "a">>), S(c_Acme), S(<<"l">>), S(<<"2">>), Absent),
   SearchJob(S(<<"y">>), S(<<"d", "e", "v">>), S(c_Acme), S(<<"l">>), Absent, None),
   SearchJob(Absent, S(<<"a", "|", "b">>), S(<<"c">>), S(<<"l">>), Absent, Absent),
   SearchJob(S(<<>>), S(<<"a">>), S(<<"b", "|", "c">>), S(<<"l">>), Absent, Absent),
   SearchJob(None, S(<<"a", "|", "b">>), S(<<"c">>), S(<<"l">>), S(<<"2">>), Absent),
   SearchJob(S(<<"a", "|", "b", "|", "c", "|", "l">>), S(<<"o", "p", "s">>), S(<<"c">>),
             S(<<"l">>), Absent, Absent),
   SearchJob(Absent, Absent, Absent, Absent, Absent, Absent)}

\* the i-th of a run of distinct postings
DistinctJob(i) ==
  SearchJob(S(<<"j", Digit(i)>>), S(<<"t", Digit(i)>>), S(c_Acme), S(<<"l">>),
            Absent, L(<<[link |-> S(l_plain)]>>))

ApiError == [t |-> "error"]
Results(v) == [t |-> "json", jobs_results |-> v]

SearchResultsFull ==
  {ApiError, Results(Absent), Results(None), Results(L(<<>>))}
  \cup {Results(L(jobs)) : jobs \in UNION {[1..n -> JobPool] : n \in 1..MaxResults}}
  \cup {Results(L([i \in 1..n |-> DistinctJob(i)])) : n \in (MaxResults + 1)..MaxRows}

SearchResultsSmall ==
  {ApiError, Results(L(<<>>)), Results(L(<<DistinctJob(1)>>)),
   Results(L(<<DistinctJob(2), DistinctJob(3)>>))}

\* resp.json(), or the exception of lines 69-71, as the stub in use gives it
StubAnswers == IF searchStub = "full" THEN SearchResultsFull ELSE SearchResultsSmall

\* the resume a client uploads: one with text, one without, one unreadable
Uploads(r) ==
  {Pdf(<<S(<<" ", "c", "v", Digit(r)>>), None, S(<<"e", "n", "d", " ">>)>>),
   Pdf(<<None>>), Corrupt}

FilesPool(r) ==
  {[resume |-> Absent]}
  \cup {[resume |-> [t |-> "file", filename |-> f, content |-> c]] :
          f \in {<<>>, <<"c", "v", ".", "p", "d", "f">>}, c \in Uploads(r)}

FormPool ==
  [domain : {Absent, S(<<" ">>), S(<<" ", "d", "e", "v">>)},
   location : {Absent, S(<<>>), S(<<"A", "u", "s", "t", "i", "n", "\n">>)}]

GenerationError == [t |-> "error"]
GenerationResults == {GenerationError, [t |-> "response", text |-> S(<<" ", "D", "e", "a", "r", "\n">>)]}

-----------------------------------------------------------------------------
(* The pipeline *)

PipelineIdle ==
  /\ uploaded_resume = Missing
  /\ scraped_jobs = Missing
  /\ pc = [r \in Requests |-> "idle"]
  /\ request = [r \in Requests |-> None]
  /\ all_jobs = [r \in Requests |-> <<>>]
  /\ processed = [r \in Requests |-> <<>>]
  /\ scraper_success = [r \in Requests |-> FALSE]
  /\ resume_text = [r \in Requests |-> None]
  /\ jobs_df = [r \in Requests |-> <<>>]
  /\ idx = [r \in Requests |-> 0]
  /\ matched_jobs = [r \in Requests |-> <<>>]
  /\ response = [r \in Requests |-> None]
  /\ searchCalls = [r \in Requests |-> <<>>]
  /\ csvWrites = [r \in Requests |-> 0]
  /\ resumeReads = [r \in Requests |-> 0]
  /\ csvReads = [r \in Requests |-> 0]
  /\ genCalls = [r \in Requests |-> <<>>]

\* lines 9-10: the keys are read once, from the environment
InitPipeline ==
  /\ SERP_API_KEY \in {S(<<>>), S(<<"k">>)}
  /\ GEMINI_API_KEY \in {S(<<>>), S(<<"k">>)}
  /\ PipelineIdle

LinkIdle ==
  /\ ljob = None
  /\ lpc = "off"
  /\ lscores = <<>>
  /\ lbest = <<>>
  /\ lresult = None

\* one request at a time, every answer of the search API
Init ==
  /\ InitPipeline
  /\ LinkIdle
  /\ clients = {1}
  /\ searchStub = "full"

\* two requests in flight together
InitConcurrent ==
  /\ InitPipeline
  /\ LinkIdle
  /\ clients = Requests
  /\ searchStub = "small"

\* jsonify(...), status
Reply(r, status, matched) ==
  /\ response' = [response EXCEPT ![r] = [status |-> status, matched_jobs |-> matched]]
  /\ pc' = [pc EXCEPT ![r] = "done"]

\* app.py 23-31
Receive(r) ==
  /\ pc[r] = "idle"
  /\ r \in clients
  /\ \E files \in FilesPool(r), form \in FormPool :
       LET domain == Strip(OrEmpty(Get(form, "domain")).s)
           location == Strip(OrEmpty(Get(form, "location")).s)
       IN  IF files.resume.t = "absent"
           THEN Reply(r, 400, <<>>) /\ UNCHANGED request
           ELSE IF files.resume.filename = <<>> \/ domain = <<>> \/ location = <<>>
           THEN Reply(r, 400, <<>>) /\ UNCHANGED request
           ELSE /\ request' = [request EXCEPT ![r] =
                     [resume_file |-> files.resume.content, domain |-> domain,
                      location |-> location]]
                /\ pc' = [pc EXCEPT ![r] = "save"]
                /\ UNCHANGED response
  /\ UNCHANGED <<linkVars, envVars, fileVars, logVars, all_jobs, processed,
                 scraper_success, resume_text, jobs_df, idx, matched_jobs>>

\* app.py 34-35: save() opens the one upload path for writing ...
SaveOpen(r) ==
  /\ pc[r] = "save"
  /\ uploaded_resume' = Truncated
  /\ pc' = [pc EXCEPT ![r] = "saving"]
  /\ UNCHANGED <<linkVars, envVars, scraped_jobs, localVars, logVars>>

\* ... and copies the upload into it
SaveWrite(r) ==
  /\ pc[r] = "saving"
  /\ uploaded_resume' = request[r].resume_file
  /\ pc' = [pc EXCEPT ![r] = "scraper"]
  /\ UNCHANGED <<linkVars, envVars, scraped_jobs, localVars, logVars>>

\* line 53 with the test left out
SerpKeyIgnored == TRUE

\* line 53
SerpKeySet == Truthy(SERP_API_KEY)

\* line 72
HasJobs(data) == data.jobs_results.t # "absent" /\ Truthy(data.jobs_results)

\* what the search API answered, for the record of the calls
AnswerKind(resp) ==
  IF resp.t = "error" THEN "error" ELSE IF HasJobs(resp) THEN "jobs" ELSE "no_jobs"

\* run_scraper_logic, lines 53-80
ScraperFetch(r) ==
  /\ pc[r] = "scraper"
  /\ IF ~SerpKeySet
     THEN /\ pc' = [pc EXCEPT ![r] = "scraped"]
          /\ UNCHANGED <<all_jobs, searchCalls>>
     ELSE \E resp \in StubAnswers :
            /\ searchCalls' = [searchCalls EXCEPT ![r] = Append(@, AnswerKind(resp))]
            /\ IF resp.t = "error"
               THEN pc' = [pc EXCEPT ![r] = "scraped"] /\ UNCHANGED all_jobs
               ELSE IF ~HasJobs(resp)
               THEN pc' = [pc EXCEPT ![r] = "scraped"] /\ UNCHANGED all_jobs
               ELSE /\ all_jobs' = [all_jobs EXCEPT ![r] = resp.jobs_results.l]
                    /\ pc' = [pc EXCEPT ![r] = "dedup"]
  /\ UNCHANGED <<linkVars, envVars, fileVars, request, processed, scraper_success,
                 resume_text, jobs_df, idx, matched_jobs, response, csvWrites,
                 resumeReads, csvReads, genCalls>>

\* lines 83-103: the records are built, and to_csv opens the jobs file ...
ScraperOpenCsv(r) ==
  /\ pc[r] = "dedup"
  /\ processed' = [processed EXCEPT ![r] = Dedup(all_jobs[r])]
  /\ scraped_jobs' = Truncated
  /\ pc' = [pc EXCEPT ![r] = "writing"]
  /\ UNCHANGED <<linkVars, envVars, uploaded_resume, request, all_jobs,
                 scraper_success, resume_text, jobs_df, idx, matched_jobs,
                 response, logVars>>

\* lines 103-105: ... and writes them
ScraperWriteCsv(r) ==
  /\ pc[r] = "writing"
  /\ scraped_jobs' = ToCsv(processed[r])
  /\ csvWrites' = [csvWrites EXCEPT ![r] = @ + 1]
  /\ scraper_success' = [scraper_success EXCEPT ![r] = TRUE]
  /\ pc' = [pc EXCEPT ![r] = "scraped"]
  /\ UNCHANGED <<linkVars, envVars, uploaded_resume, request, all_jobs, processed,
                 resume_text, jobs_df, idx, matched_jobs, response, searchCalls,
                 resumeReads, csvReads, genCalls>>

\* line 126
GeminiKeySet == Truthy(GEMINI_API_KEY)

\* run_analyzer_logic called whatever run_scraper_logic returned
AnalyzerStartUnchecked(r) ==
  /\ pc[r] = "scraped"
  /\ IF ~GeminiKeySet
     THEN Reply(r, 200, <<>>)
     ELSE pc' = [pc EXCEPT ![r] = "analyzer"] /\ UNCHANGED response
  /\ UNCHANGED <<linkVars, envVars, fileVars, request, all_jobs, processed,
                 scraper_success, resume_text, jobs_df, idx, matched_jobs, logVars>>

\* app.py 39-43 and run_analyzer_logic, lines 126-135
AnalyzerStart(r) ==
  /\ pc[r] = "scraped"
  /\ IF ~scraper_success[r]
     THEN Reply(r, 400, <<>>)
     ELSE IF ~GeminiKeySet
     THEN Reply(r, 200, <<>>)
     ELSE \E configured \in BOOLEAN :
            IF configured
            THEN pc' = [pc EXCEPT ![r] = "analyzer"] /\ UNCHANGED response
            ELSE Reply(r, 200, <<>>)
  /\ UNCHANGED <<linkVars, envVars, fileVars, request, all_jobs, processed,
                 scraper_success, resume_text, jobs_df, idx, matched_jobs, logVars>>

\* lines 137-139
ReadResume(r) ==
  /\ pc[r] = "analyzer"
  /\ resumeReads' = [resumeReads EXCEPT ![r] = @ + 1]
  /\ resume_text' = [resume_text EXCEPT ![r] = extract_text_from_pdf(uploaded_resume)]
  /\ IF Truthy(extract_text_from_pdf(uploaded_resume))
     THEN pc' = [pc EXCEPT ![r] = "read_csv"] /\ UNCHANGED response
     ELSE Reply(r, 200, <<>>)
  /\ UNCHANGED <<linkVars, envVars, fileVars, request, all_jobs, processed,
                 scraper_success, jobs_df, idx, matched_jobs, searchCalls,
                 csvWrites, csvReads, genCalls>>

\* lines 141-147; a file opened for writing and not yet written is empty, and
\* read_csv then raises an error that nothing catches
ReadJobs(r) ==
  /\ pc[r] = "read_csv"
  /\ csvReads' = [csvReads EXCEPT ![r] = @ + 1]
  /\ IF scraped_jobs.t = "missing"
     THEN Reply(r, 200, <<>>) /\ UNCHANGED <<jobs_df, idx>>
     ELSE IF scraped_jobs.t = "empty"
     THEN Reply(r, 500, <<>>) /\ UNCHANGED <<jobs_df, idx>>
     ELSE /\ jobs_df' = [jobs_df EXCEPT ![r] = ReadCsv(scraped_jobs)]
          /\ idx' = [idx EXCEPT ![r] = 1]
          /\ pc' = [pc EXCEPT ![r] = "loop"]
          /\ UNCHANGED response
  /\ UNCHANGED <<linkVars, envVars, fileVars, request, all_jobs, processed,
                 scraper_success, resume_text, matched_jobs, searchCalls,
                 csvWrites, resumeReads, genCalls>>

\* lines 149-187 without the except of line 185: a failed call ends the loop
GenerateOneStopOnFailure(r) ==
  /\ pc[r] = "loop"
  /\ idx[r] <= Len(Head5(jobs_df[r]))
  /\ \E result \in GenerationResults :
       /\ genCalls' = [genCalls EXCEPT ![r] = Append(@,
            [row |-> idx[r], resume_text |-> resume_text[r],
             ok |-> result.t # "error"])]
       /\ IF result.t = "error"
          THEN /\ idx' = [idx EXCEPT ![r] = Len(Head5(jobs_df[r])) + 1]
               /\ UNCHANGED matched_jobs
          ELSE /\ idx' = [idx EXCEPT ![r] = @ + 1]
               /\ matched_jobs' = [matched_jobs EXCEPT ![r] =
                    Append(@, MatchRecord(jobs_df[r][idx[r]], result.text))]
  /\ UNCHANGED <<linkVars, envVars, fileVars, pc, request, all_jobs, processed,
                 scraper_success, resume_text, jobs_df, response, searchCalls,
                 csvWrites, resumeReads, csvReads>>

\* lines 149-187: one job of the loop
GenerateOne(r) ==
  /\ pc[r] = "loop"
  /\ idx[r] <= Len(Head5(jobs_df[r]))
  /\ \E result \in GenerationResults :
       /\ genCalls' = [genCalls EXCEPT ![r] = Append(@,
            [row |-> idx[r], resume_text |-> resume_text[r],
             ok |-> result.t # "error"])]
       /\ idx' = [idx EXCEPT ![r] = @ + 1]
       /\ IF result.t = "error"
          THEN UNCHANGED matched_jobs
          ELSE matched_jobs' = [matched_jobs EXCEPT ![r] =
                 Append(@, MatchRecord(jobs_df[r][idx[r]], result.text))]
  /\ UNCHANGED <<linkVars, envVars, fileVars, pc, request, all_jobs, processed,
                 scraper_success, resume_text, jobs_df, response, searchCalls,
                 csvWrites, resumeReads, csvReads>>

\* lines 189-190 and app.py 45-49
AnalyzerReturn(r) ==
  /\ pc[r] = "loop"
  /\ idx[r] > Len(Head5(jobs_df[r]))
  /\ Reply(r, 200, matched_jobs[r])
  /\ UNCHANGED <<linkVars, envVars, fileVars, request, all_jobs, processed,
                 scraper_success, resume_text, jobs_df, idx, matched_jobs, logVars>>

Next ==
  \E r \in Requests :
    \/ Receive(r)
    \/ SaveOpen(r)
    \/ SaveWrite(r)
    \/ ScraperFetch(r)
    \/ ScraperOpenCsv(r)
    \/ ScraperWriteCsv(r)
    \/ AnalyzerStart(r)
    \/ ReadResume(r)
    \/ ReadJobs(r)
    \/ GenerateOne(r)
    \/ AnalyzerReturn(r)

vars == <<linkVars, envVars, fileVars, pc, localVars, logVars>>

Spec == Init /\ [][Next]_vars

SpecConcurrent == InitConcurrent /\ [][Next]_vars

(* _pick_best_apply_link called on its own, on every job of LinkJobs *)

InitLink ==
  /\ ljob \in LinkJobs
  /\ lpc = "call"
  /\ lscores = <<>>
  /\ lbest = <<>>
  /\ lresult = None
  /\ SERP_API_KEY = S(<<>>)
  /\ GEMINI_API_KEY = S(<<>>)
  /\ PipelineIdle
  /\ clients = {}
  /\ searchStub = "small"

\* lines 20-40
PickSelect ==
  /\ lpc = "call"
  /\ lscores' = ScoreKeys(ljob)
  /\ lbest' = SelectBest(ljob)
  /\ lpc' = "picked"
  /\ UNCHANGED <<ljob, lresult, envVars, fileVars, pc, localVars, logVars>>

\* lines 41-46
PickReturn ==
  /\ lpc = "picked"
  /\ lresult' = ReturnLink(ljob, lbest)
  /\ lpc' = "returned"
  /\ UNCHANGED <<ljob, lscores, lbest, envVars, fileVars, pc, localVars, logVars>>

NextLink == PickSelect \/ PickReturn

SpecLink == InitLink /\ [][NextLink]_vars

-----------------------------------------------------------------------------
(* Claims about run_scraper_logic, checked under Spec *)

\* the indices of the jobs that are the first to carry their key
FirstOccurrences(jobs) ==
  {i \in DOMAIN jobs : \A j \in 1..(i - 1) : DedupKey(jobs[j]) # DedupKey(jobs[i])}

\* the k-th smallest member of a set of numbers
Nth(set, k) == CHOOSE i \in set : Cardinality({j \in set : j < i}) = k - 1

\* C1: the records written to the jobs file are one per distinct dedup key,
\* each built from the first job carrying the key, in the order of those
\* first occurrences.
C1_FirstOccurrencesInOrder ==
  \A r \in clients :
    csvWrites[r] > 0 =>
      LET jobs == all_jobs[r]
          first == FirstOccurrences(jobs)
          expected == [k \in 1..Cardinality(first) |-> Normalize(jobs[Nth(first, k)])]
      IN  /\ processed[r] = expected
          /\ scraped_jobs = ToCsv(expected)
          /\ Len(scraped_jobs.rows) = Cardinality({DedupKey(jobs[i]) : i \in DOMAIN jobs})

\* a posting repeated behind another one: the first copy is kept, the later
\* one, which differs in its title, is dropped
C1_Witness ==
  /\ csvWrites[1] = 1
  /\ Len(all_jobs[1]) = 3
  /\ DedupKey(all_jobs[1][1]) = DedupKey(all_jobs[1][3])
  /\ DedupKey(all_jobs[1][1]) # DedupKey(all_jobs[1][2])
  /\ all_jobs[1][1].title # all_jobs[1][3].title
  /\ Len(scraped_jobs.rows) = 2
  /\ scraped_jobs.rows[1].title = all_jobs[1][1].title.s

HasJobId(job) == Truthy(JobId(job))

\* duplicates as the data model defines them
SameIdentity(a, b) ==
  \/ HasJobId(a) /\ HasJobId(b) /\ JobId(a) = JobId(b)
  \/ /\ ~HasJobId(a) /\ ~HasJobId(b)
     /\ Get(a, "title") = Get(b, "title")
     /\ Get(a, "company_name") = Get(b, "company_name")
     /\ Get(a, "location") = Get(b, "location")

\* C2: a job is dropped only when an earlier job of the response has the same
\* non-empty job_id, or both lack a job_id and agree on title, company and
\* location; every other job is retained.
C2_DroppedOnlyIfSameIdentity ==
  \A r \in clients :
    csvWrites[r] > 0 =>
      Len(processed[r]) =
        Cardinality({i \in DOMAIN all_jobs[r] :
                       \A j \in 1..(i - 1) : ~SameIdentity(all_jobs[r][j], all_jobs[r][i])})

-----------------------------------------------------------------------------
(* Claims about the request handler *)

Valid(r) == request[r] # None
AnalyzerRan(r) ==
  pc[r] \in {"analyzer", "read_csv", "loop"} \/ resumeReads[r] > 0 \/ csvReads[r] > 0
  \/ genCalls[r] # <<>>

\* C6: a valid request whose search returns no job results is answered with
\* a 400 and makes no generation call, and the analyzer runs only after the
\* scraper has returned success.  Checked under SpecConcurrent.
C6_NoJobsNoGeneration ==
  \A r \in clients :
    /\ (Valid(r) /\ searchCalls[r] = <<"no_jobs">>) =>
         /\ genCalls[r] = <<>>
         /\ ~AnalyzerRan(r)
         /\ pc[r] = "done" => response[r].status = 400
    /\ AnalyzerRan(r) => (scraper_success[r] /\ searchCalls[r] = <<"jobs">>)

C6_Witness ==
  /\ Valid(1)
  /\ SerpKeySet /\ GeminiKeySet
  /\ searchCalls[1] = <<"no_jobs">>
  /\ pc[1] = "done"
  /\ response[1] = [status |-> 400, matched_jobs |-> <<>>]

\* C8: with the search key unset the scraper returns False, issues no search
\* request and writes no jobs file; with the generation key unset the analyzer
\* returns an empty list, reads neither the resume nor the jobs file and makes
\* no generation call.  Checked under Spec.
C8_MissingKeysShortCircuit ==
  \A r \in clients :
    /\ (~Truthy(SERP_API_KEY) /\ pc[r] \in {"scraped", "done"} /\ Valid(r)) =>
         /\ ~scraper_success[r]
         /\ searchCalls[r] = <<>>
         /\ csvWrites[r] = 0
         /\ scraped_jobs = Missing
    /\ ~Truthy(GEMINI_API_KEY) =>
         /\ resumeReads[r] = 0
         /\ csvReads[r] = 0
         /\ genCalls[r] = <<>>
         /\ (pc[r] = "done" /\ scraper_success[r]) =>
              response[r] = [status |-> 200, matched_jobs |-> <<>>]

\* the scraper succeeded and the analyzer was called without its key
C8_Witness ==
  /\ ~Truthy(GEMINI_API_KEY)
  /\ scraper_success[1]
  /\ csvWrites[1] = 1
  /\ pc[1] = "done"
  /\ response[1] = [status |-> 200, matched_jobs |-> <<>>]

IsOk(call) == call.ok

\* C7: once the analyzer has the resume text and the n records of the jobs
\* file, it makes one generation call per record for the first min(n, 5)
\* records in file order, a failed call skips that job only, and the match
\* list returned is, in file order, one record per job whose call succeeded.
\* Checked under Spec.
C7_OneMatchPerSucceededCall ==
  \A r \in clients :
    idx[r] > 0 =>
      LET n == Len(jobs_df[r])
          limit == IF n < HeadRows THEN n ELSE HeadRows
          succeeded == SelectSeq(genCalls[r], IsOk)
      IN  /\ jobs_df[r] = ReadCsv(scraped_jobs)
          /\ Len(genCalls[r]) = idx[r] - 1
          /\ Len(genCalls[r]) <= limit
          /\ \A k \in DOMAIN genCalls[r] : genCalls[r][k].row = k
          /\ Len(matched_jobs[r]) = Len(succeeded)
          /\ \A i \in DOMAIN matched_jobs[r] :
               /\ matched_jobs[r][i].title = jobs_df[r][succeeded[i].row].title
               /\ matched_jobs[r][i].company = jobs_df[r][succeeded[i].row].company
          /\ pc[r] = "done" =>
               /\ Len(genCalls[r]) = limit
               /\ response[r] = [status |-> 200, matched_jobs |-> matched_jobs[r]]

\* six records in the file: five calls, the second failed, four matches
C7_Witness ==
  /\ pc[1] = "done"
  /\ Len(jobs_df[1]) = 6
  /\ Len(genCalls[1]) = 5
  /\ ~genCalls[1][2].ok
  /\ genCalls[1][1].ok /\ genCalls[1][3].ok /\ genCalls[1][4].ok /\ genCalls[1][5].ok
  /\ Len(response[1].matched_jobs) = 4
  /\ response[1].matched_jobs[2].title = jobs_df[1][3].title

\* C9: the resume text sent to the generation API for a request is the text
\* of the resume uploaded in that request.  Checked under SpecConcurrent.
C9_OwnResumeSent ==
  \A r \in clients :
    \A k \in DOMAIN genCalls[r] :
      genCalls[r][k].resume_text = extract_text_from_pdf(request[r].resume_file)

-----------------------------------------------------------------------------
(* Claims about _pick_best_apply_link, checked under SpecLink *)

\* the text of an option's link, "" when it is missing or null
LinkText(opt) == OrEmpty(Get(opt, "link")).s
NameText(job) == OrEmpty(Get(job, "company_name")).s

KeywordHits(link) == {i \in DOMAIN Keywords : IsSubstr(Keywords[i], Lower(link))}
BadSiteHits(link) == {i \in DOMAIN BadSites : IsSubstr(BadSites[i], Lower(link))}

\* the score as the specification words it
SpecScore(link, name) ==
  (IF name # <<>> /\ IsSubstr(Lower(name), Lower(link)) THEN 5 ELSE 0)
  + 3 * Cardinality(KeywordHits(link)) - Cardinality(BadSiteHits(link))

\* C3: with a non-empty list of apply options, the selected option is the
\* first one of maximal score (+5 employer name, +3 per keyword, -1 per
\* aggregator), and its link is what is returned when it has one.
C3_FirstMaximalSelected ==
  (lpc # "call" /\ ApplyOptions(ljob) # <<>>) =>
    LET opts == ApplyOptions(ljob)
        sc(i) == SpecScore(LinkText(opts[i]), NameText(ljob))
    IN  \E i \in DOMAIN opts :
          /\ lbest = <<opts[i]>>
          /\ \A j \in DOMAIN opts : sc(j) <= sc(i)
          /\ \A j \in DOMAIN opts : j < i => sc(j) < sc(i)
          /\ (lpc = "returned" /\ LinkText(opts[i]) # <<>>) => lresult = opts[i].link

\* two different links tie for the maximal score and the first was taken
C3_Witness ==
  /\ lpc = "returned"
  /\ Len(ApplyOptions(ljob)) = 2
  /\ LinkText(ApplyOptions(ljob)[1]) = l_upper
  /\ LinkText(ApplyOptions(ljob)[2]) = l_joined
  /\ lscores[1] = lscores[2]
  /\ lresult = S(l_upper)

\* a contains the name and b is a with one occurrence of the name cut out
NameRemoved(a, b, name) ==
  \E p \in 0..(Len(a) - Len(name)) :
    /\ Lower(SubSeq(a, p + 1, p + Len(name))) = Lower(name)
    /\ b = SubSeq(a, 1, p) \o SubSeq(a, p + Len(name) + 1, Len(a))

OtherwiseIdentical(a, b, name) ==
  /\ name # <<>>
  /\ NameRemoved(a, b, name)
  /\ ~IsSubstr(Lower(name), Lower(b))

\* C4 as claimed: of two links identical except for the employer's name, the
\* one containing the name scores strictly higher.
C4_NameScoresHigher ==
  lpc # "call" =>
    \A i, j \in DOMAIN ApplyOptions(ljob) :
      OtherwiseIdentical(LinkText(ApplyOptions(ljob)[i]),
                         LinkText(ApplyOptions(ljob)[j]), NameText(ljob))
        => lscores[i] > lscores[j]

\* C4 as amended: the same, for pairs of links that match the same keywords
\* and the same aggregator substrings.
C4_NameScoresHigherSameHits ==
  lpc # "call" =>
    \A i, j \in DOMAIN ApplyOptions(ljob) :
      LET a == LinkText(ApplyOptions(ljob)[i])
          b == LinkText(ApplyOptions(ljob)[j])
      IN  (/\ OtherwiseIdentical(a, b, NameText(ljob))
           /\ KeywordHits(a) = KeywordHits(b)
           /\ BadSiteHits(a) = BadSiteHits(b))
            => lscores[i] > lscores[j]

C4_Witness ==
  /\ lpc = "returned"
  /\ NameText(ljob) = c_Acme
  /\ Len(ApplyOptions(ljob)) = 2
  /\ LinkText(ApplyOptions(ljob)[1]) = l_plain
  /\ LinkText(ApplyOptions(ljob)[2]) = l_named
  /\ lscores[2] = lscores[1] + 5

\* C5: the function never raises on absent or null fields, and without apply
\* options it returns the share link when that is non-empty, else "#".
C5_NeverRaises ==
  lpc = "returned" =>
    /\ lresult.t = "str"
    /\ ApplyOptions(ljob) = <<>> =>
         lresult = (IF OrEmpty(Get(ljob, "share_link")).s # <<>>
                    THEN ljob.share_link ELSE S(<<"#">>))

C5_Witness ==
  /\ lpc = "returned"
  /\ ljob.apply_options = None
  /\ ljob.company_name = Absent
  /\ ljob.share_link = Absent
  /\ lresult = S(<<"#">>)

\* C10: when some apply option has a non-empty link, the link of one of the
\* apply options is returned.
C10_OptionLinkReturned ==
  (lpc = "returned" /\ \E i \in DOMAIN ApplyOptions(ljob) :
                         LinkText(ApplyOptions(ljob)[i]) # <<>>)
    => \E i \in DOMAIN ApplyOptions(ljob) :
         /\ LinkText(ApplyOptions(ljob)[i]) # <<>>
         /\ lresult = ApplyOptions(ljob)[i].link

====
